---- MODULE Spec2Model ----
(***************************************************************************)
(* rivulet: a Redis-based message broker (src/rivulet/rivulet.py).         *)
(*                                                                         *)
(* All shared state lives in the backend: per channel a sorted set of      *)
(* message envelopes, an id counter, a sorted set of subscriber cursors    *)
(* and an advisory lock; per client a sorted set of channel cursors.       *)
(* Every peer runs one Client call at a time; a call is a sequence of      *)
(* backend commands, and the commands of different peers interleave.       *)
(* One action of this module is one backend command (or one MULTI/EXEC     *)
(* pipeline, which the backend runs atomically) of one peer.               *)
(***************************************************************************)
EXTENDS Integers, Sequences, FiniteSets, TLC

\* ------------------------------------------------------------- universe

\* The peers that make calls, and the channel ids they use.
Clients == {"c1", "c2"}
Channels == {"a", "b"}

\* A peer that subscribed to a channel and then stays idle, never reading:
\* a lagging subscriber.
Laggard == "c3"
Peers == Clients \cup {Laggard}

\* The channel_ids arguments the peers pass to subscribe and unsubscribe.
ChannelLists == {<<"a">>, <<"b">>, <<"a", "b">>}

\* The same when all traffic is on one channel.
OneChannel == {"a"}
OneChannelLists == {<<"a">>}

\* The payloads passed to write.
Data == {"d"}

\* Number of write calls in a behaviour (also the range of the clock).
MaxWrites == 2

\* Number of calls in a behaviour: on one channel, over channel lists, with
\* leases that run out, beside a lagging subscriber, and over channel lists
\* with leases that run out.
MaxCalls == 5
MaxListCalls == 3
MaxLeaseCalls == 4
MaxLagCalls == 4
MaxListLeaseCalls == 3

\* Largest message_limit passed to read.
MaxLimit == 2

\* class IndexPolicy
Policies == {"EARLIEST", "CURRENT", "LATEST"}

\* Client.bufsize, the constructor's GC threshold; the peers are built with
\* the smallest non-negative value, which makes the GC in read most eager.
bufsize == 0

\* Values of the advisory lock key when nobody holds it.
Free == "free"

\* ------------------------------------------------- sorted sets (zsets)

\* clients:channel#ch and indexes:client#c are sorted sets: functions from
\* the members present to their scores.  An absent key is the empty set.
EmptyZ == [m \in {} |-> 0]

ZAdd(z, m, s) == [x \in (DOMAIN z) \cup {m} |-> IF x = m THEN s ELSE z[x]]

ZRem(z, m) == [x \in (DOMAIN z) \ {m} |-> z[x]]

ZCard(z) == Cardinality(DOMAIN z)

Scores(z) == {z[x] : x \in DOMAIN z}

Min(S) == CHOOSE x \in S : \A y \in S : x <= y

Max(S) == CHOOSE x \in S : \A y \in S : x >= y

\* messages:channel#ch is a sorted set of envelopes; write adds every
\* envelope with its message id as the score.
Score(e) == e.id

ZRangeByScore(msgs, lo, hi) == {e \in msgs : lo <= Score(e) /\ Score(e) <= hi}

ZRemRangeByScore(msgs, lo, hi) == msgs \ ZRangeByScore(msgs, lo, hi)

\* The envelope write builds: json.dumps of id, ts, src and data.
Envelope(id, ts, src, data) == [id |-> id, ts |-> ts, src |-> src, data |-> data]

\* ---------------------------------------------------------------- state

VARIABLES
    messages,   \* [ch -> set of envelopes]     messages:channel#ch
    ids,        \* [ch -> Nat], 0 when absent   ids:channel#ch
    clients,    \* [ch -> zset client -> score] clients:channel#ch
    indexes,    \* [c -> zset channel -> score] indexes:client#c
    lock,       \* [ch -> holder or Free]       lock:ids:channel#ch
    clock,      \* time.time() of the writers, a logical clock
    pc,         \* [c -> the command the peer issues next]
    loc,        \* [c -> the local variables of the running call]
    result,     \* [c -> how the last finished call ended]
    calls,      \* the number of calls made so far
    \* History, read by the properties only:
    owed,       \* [c -> [ch -> envelopes written to ch since c subscribed]]
    got,        \* [c -> [ch -> those of them c's reads have returned]]
    joined,     \* [c -> [ch -> c joined ch with EARLIEST and has not read yet]]
    skipped,    \* [c -> [ch -> messages present when c joined with LATEST]]
    deleted,    \* [ch -> a message of ch was deleted]
    done,       \* [ch -> greatest id of a completed write]
    doneLive    \* [ch -> the same, among ids allocated since ids was deleted]

backend == <<messages, ids, clients, indexes>>

history == <<owed, got, joined, skipped, deleted, done, doneLive>>

vars == <<messages, ids, clients, indexes, lock, clock, pc, loc, result, calls,
          owed, got, joined, skipped, deleted, done, doneLive>>

\* subscribe's pipeline.execute(): both cursors in one transaction.
SubscribeClients(cl, c, ch, index) == [cl EXCEPT ![ch] = ZAdd(cl[ch], c, index)]

\* A variant that forgets the zadd on indexes.
SubscribeIndexesForgotten(ix, c, ch, index) == ix

SubscribeIndexes(ix, c, ch, index) == [ix EXCEPT ![c] = ZAdd(ix[c], ch, index)]

\* The locals of a peer that runs no call.  subs, floor, floorLive, live,
\* was and emptied are history: the subscribers when a write began, the
\* greatest id completed before it began, whether ids was deleted after its
\* id was allocated, whether an unsubscribe found the caller subscribed,
\* and the channels an unsubscribe deleted.
IdleLoc ==
    [chans |-> <<>>, policy |-> "CURRENT", index |-> 0, skip |-> FALSE,
     limit |-> 0, data |-> "d", message_id |-> 0, ts |-> 0, min_score |-> 0,
     cur |-> EmptyZ, raw |-> EmptyZ, chidx |-> EmptyZ,
     subs |-> {}, floor |-> 0, floorLive |-> 0, live |-> FALSE,
     was |-> FALSE, emptied |-> {}]

Init ==
    /\ messages = [ch \in Channels |-> {}]
    /\ ids = [ch \in Channels |-> 0]
    /\ clients = [ch \in Channels |-> EmptyZ]
    /\ indexes = [c \in Peers |-> EmptyZ]
    /\ lock = [ch \in Channels |-> Free]
    /\ clock = 0
    /\ pc = [c \in Clients |-> "idle"]
    /\ loc = [c \in Clients |-> IdleLoc]
    /\ result = [c \in Clients |-> "none"]
    /\ calls = 0
    /\ owed = [c \in Clients |-> [ch \in Channels |-> {}]]
    /\ got = [c \in Clients |-> [ch \in Channels |-> {}]]
    /\ joined = [c \in Clients |-> [ch \in Channels |-> FALSE]]
    /\ skipped = [c \in Clients |-> [ch \in Channels |-> {}]]
    /\ deleted = [ch \in Channels |-> FALSE]
    /\ done = [ch \in Channels |-> 0]
    /\ doneLive = [ch \in Channels |-> 0]

\* The state after the laggard's subscribe(["a"]) on the fresh backend.
InitLag ==
    /\ messages = [ch \in Channels |-> {}]
    /\ ids = [ch \in Channels |-> 0]
    /\ clients = SubscribeClients([ch \in Channels |-> EmptyZ], Laggard, "a", 0)
    /\ indexes = SubscribeIndexes([c \in Peers |-> EmptyZ], Laggard, "a", 0)
    /\ lock = [ch \in Channels |-> Free]
    /\ clock = 0
    /\ pc = [c \in Clients |-> "idle"]
    /\ loc = [c \in Clients |-> IdleLoc]
    /\ result = [c \in Clients |-> "none"]
    /\ calls = 0
    /\ owed = [c \in Clients |-> [ch \in Channels |-> {}]]
    /\ got = [c \in Clients |-> [ch \in Channels |-> {}]]
    /\ joined = [c \in Clients |-> [ch \in Channels |-> FALSE]]
    /\ skipped = [c \in Clients |-> [ch \in Channels |-> {}]]
    /\ deleted = [ch \in Channels |-> FALSE]
    /\ done = [ch \in Channels |-> 0]
    /\ doneLive = [ch \in Channels |-> 0]

\* The channel the running subscribe, unsubscribe or write is working on.
Chan(c) == Head(loc[c].chans)

\* A call ends: the peer is idle again and its locals are gone.
Return(c, how) ==
    /\ pc' = [pc EXCEPT ![c] = "idle"]
    /\ loc' = [loc EXCEPT ![c] = IdleLoc]
    /\ result' = [result EXCEPT ![c] = how]

\* The for loop of subscribe and unsubscribe: the next channel, or return.
NextChannel(c, first, l) ==
    IF Len(l.chans) > 1
    THEN /\ pc' = [pc EXCEPT ![c] = first]
         /\ loc' = [loc EXCEPT ![c] = [l EXCEPT !.chans = Tail(l.chans)]]
         /\ UNCHANGED result
    ELSE Return(c, "ok")

\* The peers inside a write to ch, before and after the id is allocated.
WritersBefore(ch) ==
    {w \in Clients : pc[w] \in {"write_acquire", "write_incr"} /\ Chan(w) = ch}

WritersAfter(ch) ==
    {w \in Clients : pc[w] \in {"write_zadd", "write_release"} /\ Chan(w) = ch}

\* History: c starts or ends a subscription to ch; the writes in progress
\* no longer count c among the subscribers they began with.
ForgetSubscriber(c, ch) ==
    [w \in Clients |->
        IF w \in WritersBefore(ch) \cup WritersAfter(ch)
        THEN [loc[w] EXCEPT !.subs = @ \ {c}]
        ELSE loc[w]]

\* ------------------------------------------------------------ the lock

\* redis.lock(...).__enter__: a blocking acquire.
Acquire(c, ch) ==
    /\ lock[ch] = Free
    /\ lock' = [lock EXCEPT ![ch] = c]

\* redis.lock(...).__exit__: release; a lock that is no longer owned raises
\* LockError.
Owns(c, ch) == lock[ch] = c

\* The lease of the lock (timeout=timeout_ms / 1000.0) runs out while its
\* holder is still inside the with block.
Expire(ch) ==
    /\ lock[ch] # Free
    /\ lock' = [lock EXCEPT ![ch] = Free]
    /\ UNCHANGED <<backend, clock, pc, loc, result, calls, history>>

\* ------------------------------------------------------------ subscribe

CallSubscribe(c, chs, policy) ==
    /\ pc[c] = "idle"
    /\ pc' = [pc EXCEPT ![c] = "sub_acquire"]
    /\ loc' = [loc EXCEPT ![c] = [IdleLoc EXCEPT !.chans = chs, !.policy = policy]]
    /\ calls' = calls + 1
    /\ UNCHANGED <<backend, lock, clock, result, history>>

SubAcquire(c) ==
    /\ pc[c] = "sub_acquire"
    /\ Acquire(c, Chan(c))
    /\ pc' = [pc EXCEPT ![c] = "sub_zrange"]
    /\ UNCHANGED <<backend, clock, loc, result, calls, history>>

\* if zset: client_ids, indexes = zip(*zset) else: client_ids, indexes = [], [0]
ZsetIndexes(zset) == IF DOMAIN zset = {} THEN {0} ELSE Scores(zset)

\* A variant without the continue.
SkipsChannelNever(policy, zset, c) == FALSE

\* CURRENT and already subscribed: continue
SkipsChannel(policy, zset, c) == policy = "CURRENT" /\ c \in DOMAIN zset

\* A variant whose CURRENT falls back to EARLIEST.
ResolveIndexCurrentEarliest(policy, zset) ==
    IF policy = "LATEST" THEN Max(ZsetIndexes(zset)) ELSE Min(ZsetIndexes(zset))

\* The index the policy resolves to.
ResolveIndex(policy, zset) ==
    CASE policy = "EARLIEST" -> Min(ZsetIndexes(zset))
      [] policy = "CURRENT" -> Max(ZsetIndexes(zset))
      [] policy = "LATEST" -> Max(ZsetIndexes(zset))

SubZrange(c) ==
    /\ pc[c] = "sub_zrange"
    /\ LET zset == clients[Chan(c)] IN
       IF SkipsChannel(loc[c].policy, zset, c)
       THEN /\ pc' = [pc EXCEPT ![c] = "sub_release"]
            /\ loc' = [loc EXCEPT ![c].skip = TRUE]
       ELSE /\ pc' = [pc EXCEPT ![c] = "sub_execute"]
            /\ loc' = [loc EXCEPT ![c].index = ResolveIndex(loc[c].policy, zset),
                                  ![c].skip = FALSE]
    /\ UNCHANGED <<backend, lock, clock, result, calls, history>>

SubExecute(c) ==
    LET ch == Chan(c)
        new == c \notin DOMAIN clients[ch]
    IN
    /\ pc[c] = "sub_execute"
    /\ clients' = SubscribeClients(clients, c, ch, loc[c].index)
    /\ indexes' = SubscribeIndexes(indexes, c, ch, loc[c].index)
    /\ pc' = [pc EXCEPT ![c] = "sub_release"]
    /\ loc' = ForgetSubscriber(c, ch)
    /\ owed' = [owed EXCEPT ![c][ch] = {}]
    /\ got' = [got EXCEPT ![c][ch] = {}]
    /\ joined' = [joined EXCEPT ![c][ch] = new /\ loc[c].policy = "EARLIEST"]
    /\ skipped' = [skipped EXCEPT ![c][ch] =
            IF new /\ loc[c].policy = "LATEST" THEN messages[ch] ELSE {}]
    /\ UNCHANGED <<messages, ids, lock, clock, result, calls, deleted, done, doneLive>>

SubRelease(c) ==
    /\ pc[c] = "sub_release"
    /\ IF Owns(c, Chan(c))
       THEN /\ lock' = [lock EXCEPT ![Chan(c)] = Free]
            /\ NextChannel(c, "sub_acquire", loc[c])
       ELSE /\ Return(c, "TimeoutError")
            /\ UNCHANGED lock
    /\ UNCHANGED <<backend, clock, calls, history>>

\* ---------------------------------------------------------------- write

CallWrite(c, ch, data) ==
    /\ pc[c] = "idle"
    /\ clock < MaxWrites
    /\ pc' = [pc EXCEPT ![c] = "write_acquire"]
    /\ loc' = [loc EXCEPT ![c] =
            [IdleLoc EXCEPT !.chans = <<ch>>, !.data = data,
                            !.subs = Clients \cap DOMAIN clients[ch],
                            !.floor = done[ch], !.floorLive = doneLive[ch]]]
    /\ calls' = calls + 1
    /\ UNCHANGED <<backend, lock, clock, result, history>>

WriteAcquire(c) ==
    /\ pc[c] = "write_acquire"
    /\ Acquire(c, Chan(c))
    /\ pc' = [pc EXCEPT ![c] = "write_incr"]
    /\ UNCHANGED <<backend, clock, loc, result, calls, history>>

\* A variant that reads the counter instead of incrementing an existing one.
IncrStale(n) == IF n = 0 THEN 1 ELSE n

\* redis.incr: an absent counter counts as 0.
Incr(n) == n + 1

\* message_id = incr(ids); ts_ms = time.time()
WriteIncr(c) ==
    /\ pc[c] = "write_incr"
    /\ ids' = [ids EXCEPT ![Chan(c)] = Incr(ids[Chan(c)])]
    /\ clock' = clock + 1
    /\ loc' = [loc EXCEPT ![c].message_id = ids'[Chan(c)], ![c].ts = clock',
                          ![c].live = TRUE]
    /\ pc' = [pc EXCEPT ![c] = "write_zadd"]
    /\ UNCHANGED <<messages, clients, indexes, lock, result, calls, history>>

\* zadd(messages, {message: message_id})
WriteZadd(c) ==
    LET ch == Chan(c)
        e == Envelope(loc[c].message_id, loc[c].ts, c, loc[c].data)
    IN
    /\ pc[c] = "write_zadd"
    /\ messages' = [messages EXCEPT ![ch] = @ \cup {e}]
    /\ pc' = [pc EXCEPT ![c] = "write_release"]
    /\ owed' = [s \in Clients |->
            IF s \in loc[c].subs THEN [owed[s] EXCEPT ![ch] = @ \cup {e}] ELSE owed[s]]
    /\ UNCHANGED <<ids, clients, indexes, lock, clock, loc, result, calls,
                   got, joined, skipped, deleted, done, doneLive>>

WriteRelease(c) ==
    LET ch == Chan(c) IN
    /\ pc[c] = "write_release"
    /\ IF Owns(c, ch)
       THEN /\ lock' = [lock EXCEPT ![ch] = Free]
            /\ Return(c, "ok")
            /\ done' = [done EXCEPT ![ch] = Max({@, loc[c].message_id})]
            /\ doneLive' = [doneLive EXCEPT ![ch] =
                    IF loc[c].live THEN Max({@, loc[c].message_id}) ELSE @]
       ELSE /\ Return(c, "TimeoutError")
            /\ UNCHANGED <<lock, done, doneLive>>
    /\ UNCHANGED <<backend, clock, calls, owed, got, joined, skipped, deleted>>

\* ---------------------------------------------------------- unsubscribe

CallUnsubscribe(c, chs) ==
    /\ pc[c] = "idle"
    /\ pc' = [pc EXCEPT ![c] = "unsub_execute"]
    /\ loc' = [loc EXCEPT ![c] = [IdleLoc EXCEPT !.chans = chs]]
    /\ calls' = calls + 1
    /\ UNCHANGED <<backend, lock, clock, result, history>>

\* zrem clients, zrem indexes, zcard clients: one transaction.
UnsubscribeClients(cl, c, ch) == [cl EXCEPT ![ch] = ZRem(cl[ch], c)]

\* A variant that forgets the zrem on indexes.
UnsubscribeIndexesKept(ix, c, ch) == ix

UnsubscribeIndexes(ix, c, ch) == [ix EXCEPT ![c] = ZRem(ix[c], ch)]

UnsubExecute(c) ==
    LET ch == Chan(c) IN
    /\ pc[c] = "unsub_execute"
    /\ clients' = UnsubscribeClients(clients, c, ch)
    /\ indexes' = UnsubscribeIndexes(indexes, c, ch)
    /\ IF ZCard(clients'[ch]) > 0
       THEN pc' = [pc EXCEPT ![c] = "unsub_zrange"]
       ELSE pc' = [pc EXCEPT ![c] = "unsub_delete"]
    /\ loc' = [ForgetSubscriber(c, ch) EXCEPT ![c].was = c \in DOMAIN clients[ch]]
    /\ owed' = [owed EXCEPT ![c][ch] = {}]
    /\ got' = [got EXCEPT ![c][ch] = {}]
    /\ joined' = [joined EXCEPT ![c][ch] = FALSE]
    /\ skipped' = [skipped EXCEPT ![c][ch] = {}]
    /\ UNCHANGED <<messages, ids, lock, clock, result, calls, deleted, done, doneLive>>

\* zrange(clients, 0, 0, withscores=True)[0][1]: the lowest cursor; indexing
\* an empty reply raises IndexError.
UnsubZrange(c) ==
    /\ pc[c] = "unsub_zrange"
    /\ IF DOMAIN clients[Chan(c)] = {}
       THEN Return(c, "IndexError")
       ELSE /\ loc' = [loc EXCEPT ![c].min_score = Min(Scores(clients[Chan(c)]))]
            /\ pc' = [pc EXCEPT ![c] = "unsub_zremrange"]
            /\ UNCHANGED result
    /\ UNCHANGED <<backend, lock, clock, calls, history>>

\* The rank of an envelope in its sorted set: by score, then by member.
Rank(e, msgs) ==
    Cardinality({f \in msgs :
        Score(f) < Score(e) \/ (Score(f) = Score(e) /\ f.ts < e.ts)})

\* A variant that trims by rank: zremrangebyrank(messages, 0, min_score).
TrimMessagesByRank(msgs, min_score) == {e \in msgs : Rank(e, msgs) > min_score}

\* A variant that trims one id too far.
TrimMessagesPast(msgs, min_score) == ZRemRangeByScore(msgs, 0, min_score + 1)

\* A variant that keeps the messages at the lowest cursor.
TrimMessagesBelow(msgs, min_score) == ZRemRangeByScore(msgs, 0, min_score - 1)

\* zremrangebyscore(messages, 0, min_score)
TrimMessages(msgs, min_score) == ZRemRangeByScore(msgs, 0, min_score)

UnsubZremrange(c) ==
    LET ch == Chan(c) IN
    /\ pc[c] = "unsub_zremrange"
    /\ messages' = [messages EXCEPT ![ch] = TrimMessages(@, loc[c].min_score)]
    /\ NextChannel(c, "unsub_execute", loc[c])
    /\ deleted' = [deleted EXCEPT ![ch] = @ \/ messages'[ch] # messages[ch]]
    /\ UNCHANGED <<ids, clients, indexes, lock, clock, calls,
                   owed, got, joined, skipped, done, doneLive>>

\* delete messages, delete ids: one transaction.
DeleteMessages(msgs, ch) == [msgs EXCEPT ![ch] = {}]

\* A variant that forgets to delete the counter.
DeleteIdsKept(counters, ch) == counters

DeleteIds(counters, ch) == [counters EXCEPT ![ch] = 0]

\* History: ids(ch) is deleted under the writes in progress on ch.
ForgetCounter(c, ch) ==
    [w \in Clients |->
        IF w = c THEN [loc[c] EXCEPT !.emptied = @ \cup {ch}]
        ELSE IF w \in WritersBefore(ch) THEN [loc[w] EXCEPT !.floorLive = 0]
        ELSE IF w \in WritersAfter(ch) THEN [loc[w] EXCEPT !.live = FALSE]
        ELSE loc[w]]

UnsubDelete(c) ==
    LET ch == Chan(c) IN
    /\ pc[c] = "unsub_delete"
    /\ messages' = DeleteMessages(messages, ch)
    /\ ids' = DeleteIds(ids, ch)
    /\ IF Len(loc[c].chans) > 1
       THEN /\ pc' = [pc EXCEPT ![c] = "unsub_execute"]
            /\ loc' = [ForgetCounter(c, ch) EXCEPT ![c].chans = Tail(@)]
            /\ UNCHANGED result
       ELSE /\ pc' = [pc EXCEPT ![c] = "idle"]
            /\ loc' = [ForgetCounter(c, ch) EXCEPT ![c] = IdleLoc]
            /\ result' = [result EXCEPT ![c] = "ok"]
    /\ deleted' = [deleted EXCEPT ![ch] = @ \/ messages[ch] # {}]
    /\ doneLive' = [doneLive EXCEPT ![ch] = 0]
    /\ UNCHANGED <<clients, indexes, lock, clock, calls,
                   owed, got, joined, skipped, done>>

\* ----------------------------------------------------------------- read

CallRead(c, limit) ==
    /\ pc[c] = "idle"
    /\ pc' = [pc EXCEPT ![c] = "read_indexes"]
    /\ loc' = [loc EXCEPT ![c] = [IdleLoc EXCEPT !.limit = limit]]
    /\ calls' = calls + 1
    /\ UNCHANGED <<backend, lock, clock, result, history>>

\* current_indexes = zrange(indexes, 0, -1, withscores=True); with no
\* subscription both pipelines stay empty and read returns {}.
ReadIndexes(c) ==
    /\ pc[c] = "read_indexes"
    /\ IF DOMAIN indexes[c] = {}
       THEN Return(c, "ok")
       ELSE /\ loc' = [loc EXCEPT ![c].cur = indexes[c]]
            /\ pc' = [pc EXCEPT ![c] = "read_messages"]
            /\ UNCHANGED result
    /\ UNCHANGED <<backend, lock, clock, calls, history>>

\* zrangebyscore(messages, current_index + 1, current_index + message_limit)
Window(msgs, current_index, limit) ==
    ZRangeByScore(msgs, current_index + 1, current_index + limit)

\* raw_messages = pipeline.execute()
ReadMessages(c) ==
    /\ pc[c] = "read_messages"
    /\ loc' = [loc EXCEPT ![c].raw =
            [ch \in DOMAIN loc[c].cur |->
                Window(messages[ch], loc[c].cur[ch], loc[c].limit)]]
    /\ pc' = [pc EXCEPT ![c] = "read_clients"]
    /\ UNCHANGED <<backend, lock, clock, result, calls, history>>

\* channel_indexes = pipeline2.execute()
ReadClients(c) ==
    /\ pc[c] = "read_clients"
    /\ loc' = [loc EXCEPT ![c].chidx = [ch \in DOMAIN loc[c].cur |-> clients[ch]]]
    /\ pc' = [pc EXCEPT ![c] = "read_commit"]
    /\ UNCHANGED <<backend, lock, clock, result, calls, history>>

\* The channels of the sweep that returned messages (if not raw_messages: continue).
Active(c) == {ch \in DOMAIN loc[c].cur : loc[c].raw[ch] # {}}

\* newest_index = messages[-1]['id']: the id of the last message in score order.
NewestIndex(raw) == Max({Score(e) : e \in raw})

\* A variant that also collects when the difference is zero.
CollectsGarbageAtZero(min_index, current_index) == min_index - bufsize >= current_index

\* if min_index - self.bufsize > current_index
CollectsGarbage(min_index, current_index) == min_index - bufsize > current_index

\* messages:channel#ch after the deferred pipeline of a read.
ReadTrim(msgs, chidx, current_index) ==
    IF CollectsGarbage(Min(Scores(chidx)), current_index)
    THEN ZRemRangeByScore(msgs, 0, Min(Scores(chidx)))
    ELSE msgs

\* What read returns: message_lists.
MessageLists(c) == [ch \in Active(c) |-> loc[c].raw[ch]]

\* The loop over the inbox and the final pipeline.execute().  Unpacking
\* zip(*channel_indexes) of an empty reply raises ValueError before the
\* deferred pipeline is sent.
ReadCommit(c) ==
    /\ pc[c] = "read_commit"
    /\ IF \E ch \in Active(c) : DOMAIN loc[c].chidx[ch] = {}
       THEN /\ Return(c, "ValueError")
            /\ UNCHANGED <<backend, history>>
       ELSE /\ indexes' = [indexes EXCEPT ![c] =
                    [ch \in (DOMAIN indexes[c]) \cup Active(c) |->
                        IF ch \in Active(c) THEN NewestIndex(loc[c].raw[ch])
                        ELSE indexes[c][ch]]]
            /\ clients' = [ch \in Channels |->
                    IF ch \in Active(c)
                    THEN ZAdd(clients[ch], c, NewestIndex(loc[c].raw[ch]))
                    ELSE clients[ch]]
            /\ messages' = [ch \in Channels |->
                    IF ch \in Active(c)
                    THEN ReadTrim(messages[ch], loc[c].chidx[ch], loc[c].cur[ch])
                    ELSE messages[ch]]
            /\ Return(c, "ok")
            /\ got' = [got EXCEPT ![c] = [ch \in Channels |->
                    IF ch \in Active(c)
                    THEN got[c][ch] \cup (owed[c][ch] \cap loc[c].raw[ch])
                    ELSE got[c][ch]]]
            /\ joined' = [joined EXCEPT ![c] = [ch \in Channels |->
                    joined[c][ch] /\ ch \notin DOMAIN loc[c].cur]]
            /\ deleted' = [ch \in Channels |->
                    deleted[ch] \/ messages'[ch] # messages[ch]]
            /\ UNCHANGED <<ids, owed, skipped, done, doneLive>>
    /\ UNCHANGED <<lock, clock, calls>>

\* -------------------------------------------------------- specification

\* One step of peer c inside the call it is running.
Step(c) ==
    \/ SubAcquire(c)
    \/ SubZrange(c)
    \/ SubExecute(c)
    \/ SubRelease(c)
    \/ WriteAcquire(c)
    \/ WriteIncr(c)
    \/ WriteZadd(c)
    \/ WriteRelease(c)
    \/ UnsubExecute(c)
    \/ UnsubZrange(c)
    \/ UnsubZremrange(c)
    \/ UnsubDelete(c)
    \/ ReadIndexes(c)
    \/ ReadMessages(c)
    \/ ReadClients(c)
    \/ ReadCommit(c)

\* Peer c calls the client with channels and channel lists from the given sets.
Call(c, chans, lists) ==
    \/ \E chs \in lists, policy \in Policies : CallSubscribe(c, chs, policy)
    \/ \E ch \in chans, data \in Data : CallWrite(c, ch, data)
    \/ \E chs \in lists : CallUnsubscribe(c, chs)
    \/ \E limit \in 1..MaxLimit : CallRead(c, limit)

\* All traffic on one channel; the lock leases outlast the with blocks.
Next ==
    \E c \in Clients :
        \/ calls < MaxCalls /\ Call(c, OneChannel, OneChannelLists)
        \/ Step(c)

Spec == Init /\ [][Next]_vars

\* Calls over lists of channels; the lock leases outlast the with blocks.
NextList ==
    \E c \in Clients :
        \/ calls < MaxListCalls /\ Call(c, Channels, ChannelLists)
        \/ Step(c)

SpecList == Init /\ [][NextList]_vars

\* One channel, and a lease may run out at any time.
NextLease ==
    \/ \E c \in Clients :
        \/ calls < MaxLeaseCalls /\ Call(c, OneChannel, OneChannelLists)
        \/ Step(c)
    \/ \E ch \in OneChannel : Expire(ch)

SpecLease == Init /\ [][NextLease]_vars

\* One channel, with or without a lagging subscriber on it.
NextLag ==
    \E c \in Clients :
        \/ calls < MaxLagCalls /\ Call(c, OneChannel, OneChannelLists)
        \/ Step(c)

SpecLag == (Init \/ InitLag) /\ [][NextLag]_vars

\* Calls over lists of channels, and a lease may run out at any time.
NextListLease ==
    \/ \E c \in Clients :
        \/ calls < MaxListLeaseCalls /\ Call(c, Channels, ChannelLists)
        \/ Step(c)
    \/ \E ch \in Channels : Expire(ch)

SpecListLease == Init /\ [][NextListLease]_vars

\* The uninterrupted run of a call, as a function of the backend state.
DB == [messages |-> messages, ids |-> ids, clients |-> clients, indexes |-> indexes]

\* subscribe, for one channel.
SubscribeChannel(db, c, ch, policy) ==
    IF SkipsChannel(policy, db.clients[ch], c) THEN db
    ELSE [db EXCEPT
            !.clients = SubscribeClients(@, c, ch, ResolveIndex(policy, db.clients[ch])),
            !.indexes = SubscribeIndexes(@, c, ch, ResolveIndex(policy, db.clients[ch]))]

\* unsubscribe, for one channel.
UnsubscribeChannel(db, c, ch) ==
    LET cl == UnsubscribeClients(db.clients, c, ch)
        ix == UnsubscribeIndexes(db.indexes, c, ch)
    IN  IF ZCard(cl[ch]) > 0
        THEN [messages |-> [db.messages EXCEPT
                    ![ch] = TrimMessages(@, Min(Scores(cl[ch])))],
              ids |-> db.ids, clients |-> cl, indexes |-> ix]
        ELSE [messages |-> DeleteMessages(db.messages, ch),
              ids |-> DeleteIds(db.ids, ch), clients |-> cl, indexes |-> ix]

\* unsubscribe, for a list of channels.
RECURSIVE UnsubscribeAll(_, _, _)
UnsubscribeAll(db, c, chs) ==
    IF chs = <<>> THEN db
    ELSE UnsubscribeAll(UnsubscribeChannel(db, c, Head(chs)), c, Tail(chs))

\* ------------------------------------------------------------ properties

\* The call peer c is running has just taken a step.
Stepped(c) == pc'[c] # pc[c]

\* Peer c's read returns to its caller with this step.
ReadReturns(c) == pc[c] = "read_commit" /\ pc'[c] = "idle" /\ result'[c] = "ok"

\* No read returns an owed envelope that an earlier read returned.
C1_NotTwice ==
    \A c \in Clients : ReadReturns(c) =>
        \A ch \in Active(c) : loc[c].raw[ch] \cap got[c][ch] = {}

\* An owed envelope that is still in messages(ch) and was not returned yet
\* lies ahead of the client's cursor, where its next reads find it.
C1_NotLost ==
    \A c \in Clients, ch \in Channels :
        \A e \in owed[c][ch] :
            (e \in messages[ch] /\ e \notin got[c][ch]) =>
                (ch \in DOMAIN indexes[c] /\ Score(e) > indexes[c][ch])

\* C1.  Delivery: a client that subscribed to ch before a write to ch began
\* and has stayed subscribed since is returned the write's envelope exactly
\* once by its reads: never twice, and never zero times while it keeps
\* reading and nobody has trimmed the envelope away.
C1_Delivery == [](C1_NotLost) /\ [][C1_NotTwice]_vars

\* C2.  Cursor mirror: between backend transactions, client c has an entry
\* for ch in indexes(c) exactly if c has an entry in clients(ch), and the
\* two scores are equal.
C2_CursorMirror ==
    \A c \in Clients, ch \in Channels :
        /\ ch \in DOMAIN indexes[c] <=> c \in DOMAIN clients[ch]
        /\ ch \in DOMAIN indexes[c] => indexes[c][ch] = clients[ch][c]

\* A subscriber whose read has advanced its cursor.
C2_Witness ==
    \E c \in Clients :
        /\ pc[c] = "idle"
        /\ "a" \in DOMAIN indexes[c]
        /\ indexes[c]["a"] > 0
        /\ clients["a"][c] > 0

\* Peer c's write returns without an error with this step.
WriteSucceeds(c) == pc[c] = "write_release" /\ pc'[c] = "idle" /\ result'[c] = "ok"

\* The ids in messages(ch) are 1..n for some n.
GapFree(ch) ==
    LET present == {Score(e) : e \in messages[ch]}
    IN  present = 1..Cardinality(present)

\* The ids allocated on ch by writes that have not inserted their message yet.
Allocated(ch) ==
    {loc[w].message_id : w \in {v \in Clients : pc[v] = "write_zadd" /\ Chan(v) = ch}}

\* The same, counting the ids of the writes that are about to insert.
GapFreeAllocated(ch) ==
    LET present == {Score(e) : e \in messages[ch]} \cup Allocated(ch)
    IN  present = 1..Cardinality(present)

C3_GapFree == \A ch \in Channels : ~deleted[ch] => GapFree(ch)

C3_GapFreeAllocated == \A ch \in Channels : ~deleted[ch] => GapFreeAllocated(ch)

C3_Increasing ==
    \A c \in Clients : WriteSucceeds(c) => loc[c].message_id > loc[c].floor

C3_IncreasingLive ==
    \A c \in Clients : WriteSucceeds(c) => loc[c].message_id > loc[c].floorLive

UnsubReturns(c) ==
    /\ pc[c] \in {"unsub_zrange", "unsub_zremrange", "unsub_delete"}
    /\ pc'[c] = "idle"

\* The channels the running unsubscribe found without subscribers.
EmptiedBy(c) ==
    loc[c].emptied \cup (IF pc[c] = "unsub_delete" THEN {Chan(c)} ELSE {})

\* C4 as stated.  Zero-subscriber collection: when an unsubscribe call that
\* found clients(ch) empty returns, messages(ch) and ids(ch) are absent.
C4_AbsentAtReturn ==
    [][\A c \in Clients : UnsubReturns(c) =>
            \A ch \in EmptiedBy(c) : messages'[ch] = {} /\ ids'[ch] = 0]_vars

\* C4 as amended: messages(ch) and ids(ch) are absent right after the
\* transaction with which the unsubscribe deletes them; that is when the
\* call returns if ch is the last channel of its list.
C4_AbsentAfterDelete ==
    [][\A c \in Clients : (pc[c] = "unsub_delete" /\ Stepped(c)) =>
            messages'[Chan(c)] = {} /\ ids'[Chan(c)] = 0]_vars

\* An unsubscribe has deleted a channel that held a completed write.
C4_Witness ==
    \E c \in Clients :
        /\ pc[c] = "idle"
        /\ result[c] = "ok"
        /\ done["a"] > 0
        /\ deleted["a"]
        /\ messages["a"] = {}
        /\ ids["a"] = 0

\* C5.  Idempotent unsubscribe: from any backend state, for any peer and
\* channel list, unsubscribing twice in a row leaves the backend (and with
\* it the caller's subscriptions) as unsubscribing once does.
C5_IdempotentUnsubscribe ==
    \A c \in Clients, chs \in ChannelLists :
        UnsubscribeAll(UnsubscribeAll(DB, c, chs), c, chs) = UnsubscribeAll(DB, c, chs)

\* A subscriber of two channels whose unsubscribe changes both.
C5_Witness ==
    \E c \in Clients :
        LET once == UnsubscribeAll(DB, c, <<"a", "b">>)
        IN  /\ {"a", "b"} \subseteq DOMAIN indexes[c]
            /\ once.messages # messages
            /\ once.indexes # indexes
            /\ once.clients # clients

\* Peer c takes a step of unsubscribe for a channel it was not subscribed to
\* when the call reached that channel.
UnsubStep(c) ==
    /\ pc[c] \in {"unsub_execute", "unsub_zrange", "unsub_zremrange", "unsub_delete"}
    /\ Stepped(c)

NotSubscribed(c) ==
    IF pc[c] = "unsub_execute"
    THEN c \notin DOMAIN clients[Chan(c)] /\ Chan(c) \notin DOMAIN indexes[c]
    ELSE ~loc[c].was

ReadFetches(c) == pc[c] = "read_messages" /\ Stepped(c)

\* C7.  EARLIEST replay: the first read of a client that was not subscribed
\* to ch and subscribed with EARLIEST fetches every message that is in
\* messages(ch) at that time, when message_limit is at least their number.
C7_EarliestReplay ==
    [][\A c \in Clients : ReadFetches(c) =>
            \A ch \in DOMAIN loc[c].cur :
                (joined[c][ch] /\ Cardinality(messages[ch]) <= loc[c].limit) =>
                    loc'[c].raw[ch] = messages[ch]]_vars

\* C8.  LATEST skip: a client that was not subscribed to ch and subscribed
\* with LATEST is never returned a message that was in messages(ch) when
\* its subscribe wrote its cursor; so a read right after the subscribe
\* returns nothing for ch.
C8_LatestSkip ==
    [][\A c \in Clients : ReadReturns(c) =>
            \A ch \in Active(c) : loc[c].raw[ch] \cap skipped[c][ch] = {}]_vars

\* Peer c takes a step of a subscribe with CURRENT on a channel it is
\* subscribed to already.
Resubscribes(c) ==
    /\ Stepped(c)
    /\ loc[c].policy = "CURRENT"
    /\ \/ pc[c] = "sub_zrange" /\ c \in DOMAIN clients[Chan(c)]
       \/ pc[c] = "sub_release" /\ loc[c].skip

C10_SameRun ==
    \A c \in Clients, ch \in Channels :
        c \notin DOMAIN clients[ch] =>
            SubscribeChannel(DB, c, ch, "CURRENT") = SubscribeChannel(DB, c, ch, "LATEST")

\* The running subscribe of a new client resolves, with CURRENT, the index
\* LATEST resolves.
C10_SameIndex ==
    \A c \in Clients :
        (/\ pc[c] = "sub_zrange"
         /\ Stepped(c)
         /\ loc[c].policy = "CURRENT"
         /\ c \notin DOMAIN clients[Chan(c)]) =>
            /\ pc'[c] = "sub_execute"
            /\ loc'[c].index = ResolveIndex("LATEST", clients[Chan(c)])

\* C10.  CURRENT falls back to LATEST: for a client with no cursor in
\* clients(ch), subscribe with CURRENT resolves the index LATEST resolves
\* and leaves the backend in the state subscribe with LATEST leaves there,
\* so the client's later reads are those of a LATEST subscriber.
C10_CurrentIsLatest == [](C10_SameRun) /\ [][C10_SameIndex]_vars

\* A new subscriber resolved CURRENT beside two subscribers whose cursors
\* differ.
C10_Witness ==
    \E c \in Clients :
        /\ pc[c] = "sub_execute"
        /\ loc[c].policy = "CURRENT"
        /\ c \notin DOMAIN clients["a"]
        /\ Cardinality(Scores(clients["a"])) = 2
        /\ loc[c].index = Max(Scores(clients["a"]))

\* The messages of ch the running read of c has not been past: those with a
\* score above the cursor the read started from.
Unread(c, ch) == {e \in messages[ch] : Score(e) > loc[c].cur[ch]}

\* The smaller of two numbers.
Least(a, b) == IF a <= b THEN a ELSE b

\* What the read fetches for ch is a page: the limit's worth of the unread
\* messages, lowest ids first.
IsPage(c, ch, page) ==
    /\ page \subseteq Unread(c, ch)
    /\ Cardinality(page) = Least(loc[c].limit, Cardinality(Unread(c, ch)))
    /\ \A e \in page : \A f \in Unread(c, ch) \ page : Score(e) <= Score(f)

\* C11.  message_limit paging: for each subscribed channel a read with
\* message_limit L fetches at most L envelopes, namely the unread messages
\* with the lowest ids, and when it returns the caller's cursor is the last
\* returned id; so consecutive reads page through the unread messages L at
\* a time, repeating and skipping none.
C11_Paging ==
    [][\A c \in Clients :
        /\ ReadFetches(c) =>
                \A ch \in DOMAIN loc[c].cur : IsPage(c, ch, loc'[c].raw[ch])
        /\ ReadReturns(c) =>
                \A ch \in Active(c) :
                    /\ indexes'[c][ch] = NewestIndex(loc[c].raw[ch])
                    /\ clients'[ch][c] = NewestIndex(loc[c].raw[ch])]_vars

\* The greatest id among the envelopes the reads of c have returned for ch.
Received(c, ch) == Max({Score(e) : e \in got[c][ch]})

\* C12.  Prefix delivery: a reader that has received message id n has no
\* unreceived message with an id up to n in messages(ch), whether it was
\* inserted before or after the read that returned n: the reader gets the
\* messages in id order and none is skipped.
C12_PrefixDelivery ==
    \A c \in Clients, ch \in Channels :
        got[c][ch] # {} =>
            \A e \in owed[c][ch] \cap messages[ch] :
                Score(e) <= Received(c, ch) => e \in got[c][ch]

\* Client.subscriptions: zrange(indexes:client#c, 0, -1), the channels that
\* have a cursor in indexes(c).
subscriptions(c) == DOMAIN indexes[c]

\* Peer c's subscribe is done with a channel: it releases the lock and goes
\* on to the next channel or returns.
SubscribeLeaves(c) ==
    /\ pc[c] = "sub_release"
    /\ pc'[c] \in {"sub_acquire", "idle"}
    /\ pc'[c] = "idle" => result'[c] = "ok"

\* Peer c's unsubscribe is done with a channel.
UnsubscribeLeaves(c) ==
    /\ pc[c] \in {"unsub_zremrange", "unsub_delete"}
    /\ pc'[c] \in {"unsub_execute", "idle"}

\* C13.  Subscriptions accessor: subscriptions is the set of channels the
\* client subscribed to and has not unsubscribed from since.  A subscribe
\* leaves each channel of its list in the set and an unsubscribe leaves each
\* channel of its list out of it; the set changes with the client's own
\* subscribe, by the channel added, and with its own unsubscribe, by the
\* channel removed, and with no read and no step of another peer.
C13_Subscriptions ==
    [][\A c \in Clients :
        /\ SubscribeLeaves(c) => Chan(c) \in subscriptions(c)'
        /\ UnsubscribeLeaves(c) => Chan(c) \notin subscriptions(c)'
        /\ subscriptions(c)' # subscriptions(c) =>
            \/ /\ pc[c] = "sub_execute"
               /\ Stepped(c)
               /\ subscriptions(c)' = subscriptions(c) \cup {Chan(c)}
            \/ /\ pc[c] = "unsub_execute"
               /\ Stepped(c)
               /\ subscriptions(c)' = subscriptions(c) \ {Chan(c)}]_vars

\* A subscriber of two channels has unsubscribed from the first of them
\* and is about to unsubscribe from the second.
C13_Witness ==
    \E c \in Clients :
        /\ pc[c] = "unsub_execute"
        /\ loc[c].chans = <<"b">>
        /\ loc[c].was
        /\ subscriptions(c) = {"b"}

\* Peer c's subscribe or write raises TimeoutError with this step.
TimesOut(c) == pc[c] # "idle" /\ pc'[c] = "idle" /\ result'[c] = "TimeoutError"

\* The envelope the running write of c has built.
OwnEnvelope(c) == Envelope(loc[c].message_id, loc[c].ts, c, loc[c].data)

\* C14.  Lock timeout: subscribe and write raise TimeoutError when they
\* cannot acquire lock:ids(ch) in time, that is, from their acquire, and a
\* call that raises TimeoutError has changed nothing for the channel: a
\* write has allocated no id and stored no envelope, and a subscribe has not
\* added the caller to clients(ch) and indexes(self).
C14_TimeoutChangesNothing ==
    [][\A c \in Clients : TimesOut(c) =>
            /\ pc[c] \in {"sub_acquire", "write_acquire"}
            /\ loc[c].message_id = 0
            /\ OwnEnvelope(c) \notin messages[Chan(c)]
            /\ ~joined[c][Chan(c)]]_vars

\* Peer c is inside a subscribe.
Subscribing(c) == pc[c] \in {"sub_acquire", "sub_zrange", "sub_execute", "sub_release"}

\* c is in clients(ch) and ch in indexes(c), with the same cursor.
FullySubscribed(c, ch) ==
    /\ c \in DOMAIN clients[ch]
    /\ ch \in DOMAIN indexes[c]
    /\ clients[ch][c] = indexes[c][ch]

\* What the backend holds for c on ch: its two cursors, where present.
Entry(c, ch) ==
    <<IF c \in DOMAIN clients[ch] THEN {clients[ch][c]} ELSE {},
      IF ch \in DOMAIN indexes[c] THEN {indexes[c][ch]} ELSE {}>>

\* C15.  Partial progress: when a subscribe over a list of channels fails
\* on a channel, the channels before it are fully subscribed and this call
\* has written no entry for the failing channel and the later ones.  Step
\* by step: a channel the call is done with is fully subscribed; while the
\* call works on one channel the caller's entries for all other channels
\* stay as they are; and a call that fails on a channel has not written the
\* caller's entry for it.
C15_PartialProgress ==
    [][\A c \in Clients :
        /\ SubscribeLeaves(c) => \A ch \in {Chan(c)} : FullySubscribed(c, ch)'
        /\ Subscribing(c) =>
                \A ch \in Channels \ {Chan(c)} : Entry(c, ch)' = Entry(c, ch)
        /\ (TimesOut(c) /\ Subscribing(c)) => loc[c].skip]_vars

\* C16.  Lock discipline for the id counter: every step that changes
\* ids(ch), by incrementing or by deleting it, is a step of a peer that
\* holds lock:ids(ch).
C16_LockDiscipline ==
    [][\A ch \in Channels : ids'[ch] # ids[ch] =>
            \E c \in Clients : Stepped(c) /\ Owns(c, ch)]_vars

\* No write and no unsubscribe is in progress.
NoWriteOrUnsubscribe ==
    \A c \in Clients :
        pc[c] \notin {"write_acquire", "write_incr", "write_zadd", "write_release",
                      "unsub_execute", "unsub_zrange", "unsub_zremrange", "unsub_delete"}

\* C17.  Counter never regresses below stored messages: when no write and
\* no unsubscribe is in progress, ids(ch) (0 when absent) is at least the
\* largest score in messages(ch).
C17_CounterCoversMessages ==
    NoWriteOrUnsubscribe =>
        \A ch \in Channels : \A e \in messages[ch] : ids[ch] >= Score(e)

\* The messages of ch this step deletes.
Dropped(ch) == messages[ch] \ messages'[ch]

\* C18.  GC never drops unread data: no step deletes from messages(ch) a
\* message with an id above the cursor of a client that is subscribed to ch
\* when the step is taken.
C18_NoUnreadDropped ==
    [][\A ch \in Channels : \A e \in Dropped(ch) :
            \A s \in DOMAIN clients'[ch] : Score(e) <= clients'[ch][s]]_vars

\* No call is in progress.
AllIdle == \A c \in Clients : pc[c] = "idle"

\* C19 as stated.  Retention invariant: when no operation is in progress
\* and clients(ch) is non-empty, every message in messages(ch) has a score
\* of at least the lowest cursor in clients(ch).
C19_Retention ==
    AllIdle =>
        \A ch \in Channels : DOMAIN clients[ch] # {} =>
            \A e \in messages[ch] : Score(e) >= Min(Scores(clients[ch]))

\* After an uninterrupted unsubscribe from ch that leaves subscribers, every
\* message of ch lies above the lowest cursor.
C19_TrimmedRun ==
    \A c \in Clients, ch \in Channels :
        LET after == UnsubscribeChannel(DB, c, ch)
        IN  DOMAIN after.clients[ch] # {} =>
                \A e \in after.messages[ch] :
                    Score(e) > Min(Scores(after.clients[ch]))

\* The trim of a running unsubscribe leaves only messages above the lowest
\* cursor it read.
C19_TrimmedStep ==
    \A c \in Clients :
        (pc[c] = "unsub_zremrange" /\ Stepped(c)) =>
            \A ch \in {Chan(c)} :
                /\ \A e \in messages'[ch] : Score(e) > loc[c].min_score
                /\ \A e \in Dropped(ch) : Score(e) <= loc[c].min_score

\* C19 as amended: messages at or below the lowest cursor are removed by
\* unsubscribe only, not by read, so they stay until somebody unsubscribes;
\* right after an unsubscribe that leaves subscribers on ch, every message
\* in messages(ch) has a score above the lowest cursor that unsubscribe
\* found in clients(ch).
C19_RetentionAfterUnsubscribe == [](C19_TrimmedRun) /\ [][C19_TrimmedStep]_vars

\* An unsubscribe has trimmed the channel below a remaining subscriber's
\* cursor and left a message above it.
C19_Witness ==
    /\ AllIdle
    /\ deleted["a"]
    /\ ids["a"] = 2
    /\ messages["a"] # {}
    /\ DOMAIN clients["a"] # {}
    /\ Min(Scores(clients["a"])) = 1
    /\ \A e \in messages["a"] : Score(e) > 1

\* Peer c takes a step of read.
Reading(c) ==
    /\ pc[c] \in {"read_indexes", "read_messages", "read_clients", "read_commit"}
    /\ Stepped(c)

\* Peer c takes a step of unsubscribe that deletes messages.
Collecting(c) == pc[c] \in {"unsub_zremrange", "unsub_delete"} /\ Stepped(c)

\* C20.  With bufsize >= 0 read never deletes a message: the lowest cursor
\* of the clients(ch) snapshot is at most the reader's own cursor, so the
\* GC condition is false for every channel of every read and messages is
\* unchanged by every step of read; only unsubscribe removes messages.
C20_ReadDeletesNothing ==
    [][/\ \A c \in Clients : Reading(c) =>
            /\ messages' = messages
            /\ pc[c] = "read_commit" =>
                    \A ch \in Active(c) :
                        /\ c \in DOMAIN loc[c].chidx[ch]
                        /\ Min(Scores(loc[c].chidx[ch])) <= loc[c].cur[ch]
                        /\ ~CollectsGarbage(Min(Scores(loc[c].chidx[ch])), loc[c].cur[ch])
       /\ \A ch \in Channels : Dropped(ch) # {} =>
            \E c \in Clients : Collecting(c) /\ Chan(c) = ch]_vars

\* A read that returns messages of "a" found another subscriber's cursor
\* ahead of its own in the snapshot, and a message behind that cursor.
C20_Witness ==
    \E c \in Clients :
        /\ pc[c] = "read_commit"
        /\ "a" \in Active(c)
        /\ \E s \in DOMAIN loc[c].chidx["a"] \ {c} :
                loc[c].chidx["a"][s] > loc[c].cur["a"]
        /\ messages["a"] # {}

\* ------------------------------------------------------------------ C21

\* A peer that was subscribed to the channel is past its count query, on
\* the "subscribers remain" branch, and now queries the lowest cursor.
QueriesMinimum(c) == pc[c] = "unsub_zrange" /\ loc[c].was /\ Stepped(c)

\* C21: when two subscribers of one channel unsubscribe, in any
\* interleaving, the call that took the "subscribers remain" branch after its
\* count query still finds a subscriber in clients(ch) when it queries the
\* lowest cursor, and goes on to trim instead of raising.
C21_SubscriberRemains ==
    [][\A c \in Clients : QueriesMinimum(c) =>
            /\ DOMAIN clients[Chan(c)] # {}
            /\ pc'[c] = "unsub_zremrange"
            /\ result'[c] = result[c]]_vars

====
